---- MODULE Spec2Model ----
(***************************************************************************)
(* A model of powercfg.py: the parser that turns the text printed by       *)
(* `powercfg /query` into a Scheme -> SubGroup -> Setting tree, the        *)
(* validating setters and the change tracking of Setting, the JSON export  *)
(* and restore, and PowerCfg.apply_schema.                                 *)
(*                                                                         *)
(* A raw text is a sequence of rows.  A row is a record holding exactly    *)
(* what the code reads from the line:                                      *)
(*   indent  the number of leading spaces before the first other character *)
(*           (_SPACE_k_PATTERN matches iff indent = k),                    *)
(*   guid    the first match of _GUID_PATTERN in the line, or NoGuid,      *)
(*   word    whether the line contains the literal text 'GUID',            *)
(*   desc    the text before the first colon,                              *)
(*   value   the stripped text between the first and the second colon, as  *)
(*           a sequence of one-character strings.                          *)
(* The parenthesised display names are not modelled: no operation reads    *)
(* them except the text of an error message and the JSON export.           *)
(***************************************************************************)
EXTENDS Integers, Sequences, FiniteSets, TLC

VARIABLES raw, scheme, file, result, commands, blocks, committed, pc

vars == <<raw, scheme, file, result, commands, blocks, committed, pc>>

\* Python's None where an int is expected: no integer of the model is negative.
None == -1

\* "No match" of _GUID_PATTERN (Node._find_str returns None).
NoGuid == "none"

\* pc while no apply_schema() is in progress; otherwise pc is the subprocess.run
\* the call waits in: the setting k (in tree order) and the command ("ac" or
\* "dc"), with the tree and the baselines the call found (history).
Idle == [at |-> "idle"]

RANGE_OPTIONS == 0
LIST_OPTIONS == 1

-----------------------------------------------------------------------------
(* Strings: str(), int(), hex() and str.isdigit() on character sequences.  *)

HexDigits == <<"0", "1", "2", "3", "4", "5", "6", "7", "8", "9",
               "a", "b", "c", "d", "e", "f">>

DecDigits == {HexDigits[i] : i \in 1..10}

DigitValue(c) == (CHOOSE i \in 1..16 : HexDigits[i] = c) - 1

startswith_0x(s) == Len(s) >= 2 /\ s[1] = "0" /\ s[2] = "x"

RECURSIVE IntOfDigits(_, _)
IntOfDigits(s, base) ==
    IF s = <<>> THEN 0
    ELSE IntOfDigits(SubSeq(s, 1, Len(s) - 1), base) * base + DigitValue(s[Len(s)])

\* int(value, 16): an optional 0x prefix, then hexadecimal digits.
IntBase16(s) ==
    IF startswith_0x(s) THEN IntOfDigits(SubSeq(s, 3, Len(s)), 16)
    ELSE IntOfDigits(s, 16)

\* int(value): decimal digits.
IntBase10(s) == IntOfDigits(s, 10)

\* str.isdigit(): not empty, and every character a decimal digit.
isdigit(s) == s /= <<>> /\ \A i \in 1..Len(s) : s[i] \in DecDigits

RECURSIVE Digits(_, _)
Digits(n, base) ==
    IF n < base THEN <<HexDigits[n + 1]>>
    ELSE Append(Digits(n \div base, base), HexDigits[(n % base) + 1])

\* str(n) of a non-negative int.
Str(n) == Digits(n, 10)

\* hex(n) of a non-negative int.
Hex(n) == <<"0", "x">> \o Digits(n, 16)

-----------------------------------------------------------------------------
(* class Setting                                                           *)

\* Mutant of Setting.__value_parse: hexadecimal values are left as written.
Setting_value_parse_verbatim(value) == value

\* Setting.__value_parse
Setting_value_parse(value) ==
    IF startswith_0x(value) THEN Str(IntBase16(value)) ELSE value

\* One iteration of the loop of Setting._parse over the object's fields.
Setting_parse_row(s, row) ==
    IF row.indent = 6 /\ ~row.word
    THEN [s EXCEPT !.doc = Append(@, [description |-> row.desc,
                                      value |-> Setting_value_parse(row.value)])]
    ELSE IF row.indent = 4
    THEN LET value == IntBase16(row.value) IN
         IF s.ac_value = None
         THEN [s EXCEPT !.ac_value = value, !.old_ac_value = value]
         ELSE [s EXCEPT !.dc_value = value, !.old_dc_value = value]
    ELSE s

RECURSIVE Setting_parse_rows(_, _)
Setting_parse_rows(s, rows) ==
    IF rows = <<>> THEN s
    ELSE Setting_parse_rows(Setting_parse_row(s, Head(rows)), Tail(rows))

\* Setting._parse: the fields after the loop over rows[1:].
Setting_parse(guid, rows) ==
    Setting_parse_rows([guid |-> guid, doc |-> <<>>,
                        ac_value |-> None, old_ac_value |-> None,
                        dc_value |-> None, old_dc_value |-> None], rows)

RECURSIVE NumericValues(_)
NumericValues(doc) ==
    IF doc = <<>> THEN <<>>
    ELSE IF isdigit(Head(doc).value)
         THEN <<IntBase10(Head(doc).value)>> \o NumericValues(Tail(doc))
         ELSE NumericValues(Tail(doc))

\* Setting.__parse_options: [options_type, options] from doc (at least two entries).
Setting_parse_options(doc) ==
    LET val_1 == doc[1].value
        val_2 == doc[2].value
    IN  IF isdigit(val_1) /\ isdigit(val_2)
        THEN [options_type |-> RANGE_OPTIONS,
              options |-> <<IntBase10(val_1), IntBase10(val_2)>>]
        ELSE [options_type |-> LIST_OPTIONS, options |-> NumericValues(doc)]

\* Setting(str_to_parse): Node.__start_parse, then __parse_options.
Setting_init(block) ==
    LET s == Setting_parse(block[1].guid, Tail(block))
        o == Setting_parse_options(s.doc)
    IN  [guid |-> s.guid, doc |-> s.doc,
         ac_value |-> s.ac_value, old_ac_value |-> s.old_ac_value,
         dc_value |-> s.dc_value, old_dc_value |-> s.old_dc_value,
         options_type |-> o.options_type, options |-> o.options]

\* The exception Setting(block) raises, "ok" if none: __parse_options reads doc[0], doc[1].
Setting_init_raises(block) ==
    IF Len(Setting_parse(block[1].guid, Tail(block)).doc) < 2 THEN "IndexError" ELSE "ok"

InList(value, options) == \E i \in 1..Len(options) : options[i] = value

\* Setting.__check_value: TRUE, FALSE, or "TypeError" (None compared with an int).
Setting_check_value(s, value) ==
    IF s.options_type = RANGE_OPTIONS
    THEN IF value = None THEN "TypeError"
         ELSE IF value >= s.options[1] /\ value <= s.options[2] THEN "True" ELSE "False"
    ELSE IF InList(value, s.options) THEN "True" ELSE "False"

\* The exception Setting.__set_value raises, "ok" if none.
Setting_set_value_raises(s, value) ==
    LET c == Setting_check_value(s, value) IN
    IF c = "True" THEN "ok"
    ELSE IF c = "False" THEN "WrongSettingValueException"
    ELSE c

\* Mutant of Setting.__set_value: the value is stored before it is checked.
Setting_set_value_unchecked(s, value, is_ac) ==
    IF is_ac THEN [s EXCEPT !.ac_value = value]
             ELSE [s EXCEPT !.dc_value = value]

\* Mutant of Setting.__set_value: a stored value also becomes the baseline.
Setting_set_value_rebased(s, value, is_ac) ==
    IF Setting_check_value(s, value) = "True"
    THEN IF is_ac THEN [s EXCEPT !.ac_value = value, !.old_ac_value = value]
                  ELSE [s EXCEPT !.dc_value = value, !.old_dc_value = value]
    ELSE s

\* Setting.__set_value: the object after the call.
Setting_set_value(s, value, is_ac) ==
    IF Setting_check_value(s, value) = "True"
    THEN IF is_ac THEN [s EXCEPT !.ac_value = value]
                  ELSE [s EXCEPT !.dc_value = value]
    ELSE s

Setting_is_ac_changed(s) == s.ac_value /= s.old_ac_value

Setting_is_dc_changed(s) == s.dc_value /= s.old_dc_value

Setting_update_old_values(s) ==
    [s EXCEPT !.old_ac_value = s.ac_value, !.old_dc_value = s.dc_value]

\* Mutant of Setting.to_json: the AC and DC values under each other's key.
Setting_to_json_swapped(s) ==
    [options_type |-> s.options_type, options |-> s.options,
     ac_value |-> s.dc_value, dc_value |-> s.ac_value, doc |-> s.doc]

\* Setting.to_json (without 'name').
Setting_to_json(s) ==
    [options_type |-> s.options_type, options |-> s.options,
     ac_value |-> s.ac_value, dc_value |-> s.dc_value, doc |-> s.doc]

HasKey(d, k) == k \in DOMAIN d

\* Setting.load_from_json: [obj, raised]; the first failing step ends the call.
Setting_load_from_json(s, json_data) ==
    IF ~HasKey(json_data, "ac_value") THEN [obj |-> s, raised |-> "KeyError"]
    ELSE LET r1 == Setting_set_value_raises(s, json_data.ac_value)
             s1 == Setting_set_value(s, json_data.ac_value, TRUE)
         IN  IF r1 /= "ok" THEN [obj |-> s1, raised |-> r1]
             ELSE IF ~HasKey(json_data, "dc_value") THEN [obj |-> s1, raised |-> "KeyError"]
             ELSE [obj |-> Setting_set_value(s1, json_data.dc_value, FALSE),
                   raised |-> Setting_set_value_raises(s1, json_data.dc_value)]

-----------------------------------------------------------------------------
(* class SubGroup, class Scheme                                            *)

\* HAS_GUID of SubGroup._parse (level 4) and Scheme._parse (level 2).
HAS_GUID(row, level) == row.indent = level /\ row.guid /= NoGuid

\* One iteration of the splitting loop; i counts from 0 as in the code and
\* st = [start_ind, end_ind, children], children being the blocks handed to
\* the child constructor so far.
Split_step(st, rows, i, level) ==
    LET IS_LAST_ROW == i = Len(rows) - 1
        has_guid == HAS_GUID(rows[i + 1], level)
        start_ind == IF has_guid /\ st.start_ind = -1 THEN i ELSE st.start_ind
        end_ind == IF has_guid /\ st.start_ind = -1 THEN st.end_ind
                   ELSE IF st.start_ind /= -1 /\ has_guid THEN i
                   ELSE IF st.start_ind /= -1 /\ IS_LAST_ROW THEN Len(rows)
                   ELSE st.end_ind
    IN  IF end_ind /= -1
        THEN [start_ind |-> i, end_ind |-> -1,
              children |-> Append(st.children, SubSeq(rows, start_ind + 1, end_ind))]
        ELSE [start_ind |-> start_ind, end_ind |-> end_ind, children |-> st.children]

RECURSIVE Split_loop(_, _, _, _)
Split_loop(st, rows, i, level) ==
    IF i >= Len(rows) THEN st
    ELSE Split_loop(Split_step(st, rows, i, level), rows, i + 1, level)

\* The blocks SubGroup._parse / Scheme._parse build their children from, in order.
Split(rows, level) ==
    Split_loop([start_ind |-> -1, end_ind |-> -1, children |-> <<>>], rows, 0, level).children

\* SubGroup(str_to_parse)
SubGroup_init(block) ==
    LET bs == Split(Tail(block), 4) IN
    [guid |-> block[1].guid, settings |-> [k \in 1..Len(bs) |-> Setting_init(bs[k])]]

\* The exception SubGroup(block) raises, "ok" if none.
SubGroup_init_raises(block) ==
    LET bs == Split(Tail(block), 4) IN
    IF \E k \in 1..Len(bs) : Setting_init_raises(bs[k]) /= "ok" THEN "IndexError" ELSE "ok"

\* Scheme(str_to_parse)
Scheme_init(text) ==
    LET bs == Split(Tail(text), 2) IN
    [guid |-> text[1].guid, subgroups |-> [k \in 1..Len(bs) |-> SubGroup_init(bs[k])]]

\* The exception Scheme(text) raises, "ok" if none.
Scheme_init_raises(text) ==
    LET bs == Split(Tail(text), 2) IN
    IF \E k \in 1..Len(bs) : SubGroup_init_raises(bs[k]) /= "ok" THEN "IndexError" ELSE "ok"

\* The for loop of SubGroup.load_from_json from the k-th setting on:
\* [settings, raised]; the loop ends at the first exception.
RECURSIVE SubGroup_load_loop(_, _, _)
SubGroup_load_loop(settings, k, json_data) ==
    IF k > Len(settings) THEN [settings |-> settings, raised |-> "ok"]
    ELSE IF ~HasKey(json_data, "settings") \/ ~HasKey(json_data.settings, settings[k].guid)
    THEN [settings |-> settings, raised |-> "KeyError"]
    ELSE LET r == Setting_load_from_json(settings[k], json_data.settings[settings[k].guid])
             after == [settings EXCEPT ![k] = r.obj]
         IN  IF r.raised /= "ok" THEN [settings |-> after, raised |-> r.raised]
             ELSE SubGroup_load_loop(after, k + 1, json_data)

\* SubGroup.load_from_json: [obj, raised]; `except KeyError: pass` around the loop.
SubGroup_load_from_json(sg, json_data) ==
    LET r == SubGroup_load_loop(sg.settings, 1, json_data) IN
    [obj |-> [sg EXCEPT !.settings = r.settings],
     raised |-> IF r.raised = "KeyError" THEN "ok" ELSE r.raised]

\* The for loop of Scheme.load_from_json from the k-th subgroup on; the
\* try / except KeyError is inside the loop.
RECURSIVE Scheme_load_loop(_, _, _)
Scheme_load_loop(subgroups, k, json_data) ==
    IF k > Len(subgroups) THEN [subgroups |-> subgroups, raised |-> "ok"]
    ELSE IF ~HasKey(json_data, "subgroups") \/ ~HasKey(json_data.subgroups, subgroups[k].guid)
    THEN Scheme_load_loop(subgroups, k + 1, json_data)
    ELSE LET r == SubGroup_load_from_json(subgroups[k], json_data.subgroups[subgroups[k].guid])
             after == [subgroups EXCEPT ![k] = r.obj]
         IN  IF r.raised \notin {"ok", "KeyError"} THEN [subgroups |-> after, raised |-> r.raised]
             ELSE Scheme_load_loop(after, k + 1, json_data)

\* Mutant of Scheme.load_from_json: the GUID is compared after the subgroups were loaded.
Scheme_load_from_json_late_check(sch, json_data) ==
    LET r == Scheme_load_loop(sch.subgroups, 1, json_data) IN
    [obj |-> [sch EXCEPT !.subgroups = r.subgroups],
     raised |-> IF r.raised /= "ok" THEN r.raised
                ELSE IF json_data.guid /= sch.guid THEN "Exception" ELSE "ok"]

\* Scheme.load_from_json: [obj, raised].
Scheme_load_from_json(sch, json_data) ==
    IF json_data.guid /= sch.guid THEN [obj |-> sch, raised |-> "Exception"]
    ELSE LET r == Scheme_load_loop(sch.subgroups, 1, json_data) IN
         [obj |-> [sch EXCEPT !.subgroups = r.subgroups], raised |-> r.raised]

\* A dict built by inserting seq[k].guid -> val(seq[k]) in order: a later
\* entry with the same key replaces the earlier one.
DictByGuid(seq, val(_)) ==
    [g \in {seq[k].guid : k \in 1..Len(seq)} |->
        val(seq[CHOOSE k \in 1..Len(seq) :
                  /\ seq[k].guid = g
                  /\ \A m \in 1..Len(seq) : seq[m].guid = g => m <= k])]

\* SubGroup.to_json (without 'name').
SubGroup_to_json(sg) == [settings |-> DictByGuid(sg.settings, Setting_to_json)]

\* Scheme.to_json (without 'name').
Scheme_to_json(sch) ==
    [guid |-> sch.guid, subgroups |-> DictByGuid(sch.subgroups, SubGroup_to_json)]

-----------------------------------------------------------------------------
(* class PowerCfg                                                          *)

\* The exception subprocess.run raises when the program cannot be started:
\* an OSError (FileNotFoundError, PermissionError, ...).
CannotLaunch == "OSError"

\* Mutant of the check argument of subprocess.run: check=True.
subprocess_run_check_true == TRUE

\* The check argument of subprocess.run(command): apply_schema does not pass
\* it, so it is False and a non-zero exit status raises nothing.
subprocess_run_check == FALSE

\* The settings in the order the two for loops of apply_schema visit them.
SubGroup_order(sch, i) == [j \in 1..Len(sch.subgroups[i].settings) |-> <<i, j>>]

RECURSIVE Scheme_order(_, _)
Scheme_order(sch, i) ==
    IF i > Len(sch.subgroups) THEN <<>>
    ELSE SubGroup_order(sch, i) \o Scheme_order(sch, i + 1)

\* Mutant of the command line: the two verbs are exchanged.
apply_schema_command_swapped(sch, p, verb) ==
    LET s == sch.subgroups[p[1]].settings[p[2]] IN
    [verb |-> IF verb = "ac" THEN "-setdcvalueindex" ELSE "-setacvalueindex",
     scheme |-> sch.guid, subgroup |-> sch.subgroups[p[1]].guid, setting |-> s.guid,
     value |-> IF verb = "ac" THEN Hex(s.ac_value) ELSE Hex(s.dc_value),
     returncode |-> None]

\* The command line apply_schema builds for the setting at p: verb is "ac"
\* or "dc"; the value is read when the command is built.
apply_schema_command(sch, p, verb) ==
    LET s == sch.subgroups[p[1]].settings[p[2]] IN
    [verb |-> IF verb = "ac" THEN "-setacvalueindex" ELSE "-setdcvalueindex",
     scheme |-> sch.guid, subgroup |-> sch.subgroups[p[1]].guid, setting |-> s.guid,
     value |-> IF verb = "ac" THEN Hex(s.ac_value) ELSE Hex(s.dc_value),
     returncode |-> None]

\* The loops of apply_schema from the k-th setting of the order on, up to the
\* next call of subprocess.run or to the end.  at is where the code is in
\* the body of the inner loop: "ac" before `if setting.is_ac_changed()`,
\* "dc" before `if setting.is_dc_changed()`, "upd" before
\* setting.update_old_values().  The result is the tree, and the place of
\* the subprocess.run reached: its setting k and "ac" or "dc", or "end".
RECURSIVE apply_schema_loop(_, _, _)
apply_schema_loop(sch, k, at) ==
    LET order == Scheme_order(sch, 1) IN
    IF k > Len(order) THEN [tree |-> sch, k |-> k, at |-> "end"]
    ELSE LET i == order[k][1]
             j == order[k][2]
             s == sch.subgroups[i].settings[j]
         IN  IF at = "ac"
             THEN IF Setting_is_ac_changed(s) THEN [tree |-> sch, k |-> k, at |-> "ac"]
                  ELSE apply_schema_loop(sch, k, "dc")
             ELSE IF at = "dc"
             THEN IF Setting_is_dc_changed(s) THEN [tree |-> sch, k |-> k, at |-> "dc"]
                  ELSE apply_schema_loop(sch, k, "upd")
             ELSE apply_schema_loop(
                      [sch EXCEPT !.subgroups[i].settings[j] = Setting_update_old_values(s)],
                      k + 1, "ac")

-----------------------------------------------------------------------------
(* Inputs: the rows of `powercfg /query` texts.                            *)

\* "<Power Scheme|Subgroup|Power Setting> GUID: <guid>  (<name>)"
Header(indent, guid) ==
    [indent |-> indent, guid |-> guid, word |-> TRUE, desc |-> "GUID", value |-> <<>>]

\* "GUID Alias: <alias>"
AliasRow(indent) ==
    [indent |-> indent, guid |-> NoGuid, word |-> TRUE, desc |-> "GUID Alias", value |-> <<>>]

\* A documentation row, "      <desc>: <value>"
DocRow(desc, value) ==
    [indent |-> 6, guid |-> NoGuid, word |-> FALSE, desc |-> desc, value |-> value]

\* "    Current AC|DC Power Setting Index: <value>"
ValueRow(value) ==
    [indent |-> 4, guid |-> NoGuid, word |-> FALSE, desc |-> "Current Power Setting Index",
     value |-> value]

\* An empty line.
BlankRow == [indent |-> 0, guid |-> NoGuid, word |-> FALSE, desc |-> "", value |-> <<>>]

\* "0x000000<d>"
Hex8(d) == <<"0", "x", "0", "0", "0", "0", "0", "0">> \o d

\* The documentation rows of a setting: ranges (ascending, descending, wide)
\* and lists (plain, with duplicates, led by text, hexadecimal, without numbers).
DocVariants ==
    { <<DocRow("Minimum Possible Setting", Hex8(<<"0", "1">>)),
        DocRow("Maximum Possible Setting", Hex8(<<"0", "2">>)),
        DocRow("Possible Settings increment", Hex8(<<"0", "1">>)),
        DocRow("Possible Settings units", <<"S", "e", "c">>)>>,
      <<DocRow("Minimum Possible Setting", Hex8(<<"0", "2">>)),
        DocRow("Maximum Possible Setting", Hex8(<<"0", "1">>))>>,
      <<DocRow("Minimum Possible Setting", Hex8(<<"0", "0">>)),
        DocRow("Maximum Possible Setting", Hex8(<<"1", "f">>)),
        DocRow("Possible Settings units", <<"%">>)>>,
      <<DocRow("Possible Setting Index", <<"0", "0", "0">>),
        DocRow("Possible Setting Friendly Name", <<"N", "o">>),
        DocRow("Possible Setting Index", <<"0", "0", "1">>),
        DocRow("Possible Setting Friendly Name", <<"Y", "e", "s">>)>>,
      <<DocRow("Possible Setting Index", <<"0", "0", "1">>),
        DocRow("Possible Setting Friendly Name", <<"O", "n">>),
        DocRow("Possible Setting Index", <<"0", "0", "1">>),
        DocRow("Possible Setting Friendly Name", <<"O", "n">>)>>,
      <<DocRow("Possible Setting Friendly Name", <<"O", "f", "f">>),
        DocRow("Possible Setting Index", <<"0", "0", "2">>),
        DocRow("Possible Setting Friendly Name", <<"O", "n">>),
        DocRow("Possible Setting Index", <<"0", "0", "1">>)>>,
      <<DocRow("Possible Setting Index", Hex8(<<"0", "2">>)),
        DocRow("Possible Setting Friendly Name", <<"1", "f">>),
        DocRow("Possible Setting Index", Hex8(<<"0", "a">>))>>,
      <<DocRow("Possible Setting Friendly Name", <<"N", "o">>),
        DocRow("Possible Setting Friendly Name", <<"a">>)>> }

\* The range [1, 2] and the list [1, 2].
RangeDoc ==
    <<DocRow("Minimum Possible Setting", Hex8(<<"0", "1">>)),
      DocRow("Maximum Possible Setting", Hex8(<<"0", "2">>))>>

ListDoc ==
    <<DocRow("Possible Setting Index", <<"0", "0", "1">>),
      DocRow("Possible Setting Friendly Name", <<"O", "f", "f">>),
      DocRow("Possible Setting Index", <<"0", "0", "2">>),
      DocRow("Possible Setting Friendly Name", <<"O", "n">>)>>

\* The most 4-space value rows a setting block of the inputs holds.
MaxValueRows == 3

\* Setter arguments are drawn from 0..MaxVal.
MaxVal == 2

\* The values written in value rows: 0 and 2.
RowValues == {Hex8(<<"0", "0">>), <<"0", "x", "2">>}

ValueRows == UNION {[1..n -> {ValueRow(v) : v \in RowValues}] : n \in 0..MaxValueRows}

AcDcRows(ac, dc) == <<ValueRow(Hex8(ac)), ValueRow(Hex8(dc))>>

SettingBlock(guid, doc, values) == <<Header(4, guid), AliasRow(6)>> \o doc \o values

SubGroupHeader(guid) == <<Header(2, guid), AliasRow(4)>>

SchemeHeader == <<Header(0, "g0"), AliasRow(2)>>

\* Texts of one subgroup with one setting: every documentation variant with
\* two value rows, and two variants with every sequence of value rows.
SettingTexts ==
    { SchemeHeader \o SubGroupHeader("g1") \o SettingBlock("g3", d, v) \o <<BlankRow>> :
        d \in DocVariants, v \in {AcDcRows(<<"0", "1">>, <<"0", "2">>),
                                  AcDcRows(<<"0", "0">>, <<"0", "a">>)} }
    \cup
    { SchemeHeader \o SubGroupHeader("g1") \o SettingBlock("g3", d, v) \o <<BlankRow>> :
        d \in {RangeDoc, ListDoc}, v \in ValueRows }

\* Texts of two settings: in one subgroup, and in two subgroups under the
\* same setting GUID.
TreeTexts ==
    { SchemeHeader \o SubGroupHeader("g1")
        \o SettingBlock("g3", RangeDoc, AcDcRows(<<"0", "1">>, <<"0", "2">>)) \o <<BlankRow>>
        \o SettingBlock("g4", ListDoc, AcDcRows(<<"0", "2">>, <<"0", "1">>)) \o <<BlankRow>>,
      SchemeHeader \o SubGroupHeader("g1")
        \o SettingBlock("g3", ListDoc, AcDcRows(<<"0", "1">>, <<"0", "1">>)) \o <<BlankRow>>
        \o SubGroupHeader("g2")
        \o SettingBlock("g3", RangeDoc, AcDcRows(<<"0", "2">>, <<"0", "2">>)) \o <<BlankRow>> }

Texts == SettingTexts \cup TreeTexts

\* The (ac_value, dc_value) pairs of the JSON records handed to load_from_json.
JsonPairs == {<<1, 2>>, <<2, 0>>, <<0, 1>>}

JsonSettingRecords == {[ac_value |-> p[1], dc_value |-> p[2]] : p \in JsonPairs}

Guids(seq) == {seq[k].guid : k \in 1..Len(seq)}

\* The 'settings' dicts for a subgroup: any subset of its settings' GUIDs as keys.
JsonSettings(sg) == UNION {[K -> JsonSettingRecords] : K \in SUBSET Guids(sg.settings)}

\* The 'subgroups' dicts for a tree: any subset of its subgroups' GUIDs as keys.
JsonSubgroups(sch) ==
    LET Sub(g) == LET k == CHOOSE k \in 1..Len(sch.subgroups) : sch.subgroups[k].guid = g
                  IN  {[settings |-> d] : d \in JsonSettings(sch.subgroups[k])}
    IN  UNION { {f \in [K -> UNION {Sub(g) : g \in K}] : \A g \in K : f[g] \in Sub(g)} :
                K \in SUBSET Guids(sch.subgroups) }

\* A dict that holds every subgroup and every setting of the tree.
IsComplete(sch, d) ==
    \A i \in 1..Len(sch.subgroups) :
        /\ HasKey(d, sch.subgroups[i].guid)
        /\ \A j \in 1..Len(sch.subgroups[i].settings) :
               HasKey(d[sch.subgroups[i].guid].settings, sch.subgroups[i].settings[j].guid)

\* The JSON documents for a tree: under its own GUID every dict, under
\* another GUID the empty dict and the complete ones.
JsonDocs(sch) ==
    {[guid |-> sch.guid, subgroups |-> d] : d \in JsonSubgroups(sch)}
    \cup
    {[guid |-> "g9", subgroups |-> d] :
        d \in {e \in JsonSubgroups(sch) : e = <<>> \/ IsComplete(sch, e)}}

\* The most rows after the header in the texts given to the block splitting.
MaxRows == 5

\* The rows of those texts.
SplitRows ==
    { Header(2, "g1"), Header(2, "g2"), Header(4, "g3"), Header(4, "g4"),
      DocRow("Possible Setting Index", <<"0", "0", "1">>), AliasRow(6), BlankRow }

\* A scheme header or a subgroup header, then up to MaxRows rows.
SplitTexts ==
    { <<h>> \o t : h \in {Header(0, "g0"), Header(2, "g1")},
                   t \in UNION {[1..n -> SplitRows] : n \in 0..MaxRows} }

-----------------------------------------------------------------------------
(* The operations.  result is the last call: its name, the exception it    *)
(* raised ("ok" if none) and, for the loads, the JSON document read;       *)
(* commands are the command lines the last call ran by subprocess.run,     *)
(* each with the exit status the external program returned; file is the    *)
(* JSON file (<<>> while there is none); blocks are the blocks the last    *)
(* _parse of a Scheme or SubGroup handed to the child constructor.         *)
(* pc is Idle, or the subprocess.run an apply_schema() in progress waits    *)
(* in; while it waits, commands holds the command lines handed to          *)
(* subprocess.run so far, the last one without an exit status yet.         *)
(* committed is a history variable: for every setting the <<ac, dc>>       *)
(* values it held when it was constructed or when update_old_values last   *)
(* ran on it.                                                              *)

Held(sch) ==
    [i \in 1..Len(sch.subgroups) |->
        [j \in 1..Len(sch.subgroups[i].settings) |->
            <<sch.subgroups[i].settings[j].ac_value, sch.subgroups[i].settings[j].dc_value>>]]

Init ==
    /\ raw \in Texts
    /\ scheme = Scheme_init(raw)
    /\ committed = Held(scheme)
    /\ file = <<>>
    /\ result = [op |-> "__init__", raised |-> "ok"]
    /\ commands = <<>>
    /\ blocks = <<>>
    /\ pc = Idle

\* PowerCfg(): a new tree parsed from the text of `powercfg /query`.
PowerCfg_init ==
    /\ pc = Idle
    /\ scheme' = Scheme_init(raw)
    /\ committed' = Held(scheme')
    /\ result' = [op |-> "__init__", raised |-> "ok"]
    /\ commands' = <<>>
    /\ UNCHANGED <<raw, file, blocks, pc>>

Positions == {<<i, j>> : i \in 1..2, j \in 1..2}

IsSetting(sch, i, j) == i <= Len(sch.subgroups) /\ j <= Len(sch.subgroups[i].settings)

SettingAt(sch, i, j) == sch.subgroups[i].settings[j]

\* scheme.get_subgroups()[i].get_settings()[j].set_ac_value(v)
set_ac_value(i, j, v) ==
    /\ pc = Idle
    /\ IsSetting(scheme, i, j)
    /\ scheme' = [scheme EXCEPT !.subgroups[i].settings[j] = Setting_set_value(@, v, TRUE)]
    /\ result' = [op |-> "set_ac_value",
                  raised |-> Setting_set_value_raises(SettingAt(scheme, i, j), v)]
    /\ commands' = <<>>
    /\ UNCHANGED <<raw, file, blocks, committed, pc>>

\* scheme.get_subgroups()[i].get_settings()[j].set_dc_value(v)
set_dc_value(i, j, v) ==
    /\ pc = Idle
    /\ IsSetting(scheme, i, j)
    /\ scheme' = [scheme EXCEPT !.subgroups[i].settings[j] = Setting_set_value(@, v, FALSE)]
    /\ result' = [op |-> "set_dc_value",
                  raised |-> Setting_set_value_raises(SettingAt(scheme, i, j), v)]
    /\ commands' = <<>>
    /\ UNCHANGED <<raw, file, blocks, committed, pc>>

\* scheme.get_subgroups()[i].get_settings()[j].update_old_values()
update_old_values(i, j) ==
    /\ pc = Idle
    /\ IsSetting(scheme, i, j)
    /\ scheme' = [scheme EXCEPT !.subgroups[i].settings[j] = Setting_update_old_values(@)]
    /\ committed' = [committed EXCEPT ![i][j] = Held(scheme)[i][j]]
    /\ result' = [op |-> "update_old_values", raised |-> "ok"]
    /\ commands' = <<>>
    /\ UNCHANGED <<raw, file, blocks, pc>>

\* scheme.load_from_json(json_data)
load_from_json(json_data) ==
    LET r == Scheme_load_from_json(scheme, json_data) IN
    /\ pc = Idle
    /\ scheme' = r.obj
    /\ result' = [op |-> "load_from_json", raised |-> r.raised, json_data |-> json_data]
    /\ commands' = <<>>
    /\ UNCHANGED <<raw, file, blocks, committed, pc>>

\* PowerCfg.apply_schema() is called: the loops run up to the first
\* subprocess.run, or to the end when no value is changed.  subprocess.run
\* either cannot launch the program and raises, which ends the call, or
\* launches it and waits for it to end.  commands holds every command line
\* handed to subprocess.run, the one that could not be launched included.
apply_schema(launched) ==
    LET r == apply_schema_loop(scheme, 1, "ac")
        order == Scheme_order(scheme, 1)
    IN  /\ pc = Idle
        /\ scheme' = r.tree
        /\ committed' = [i \in 1..Len(scheme.subgroups) |->
                           [j \in 1..Len(scheme.subgroups[i].settings) |->
                               IF \E k \in 1..(r.k - 1) : order[k] = <<i, j>>
                               THEN Held(scheme)[i][j] ELSE committed[i][j]]]
        /\ IF r.at = "end"
           THEN /\ pc' = Idle
                /\ commands' = <<>>
                /\ result' = [op |-> "apply_schema", raised |-> "ok"]
           ELSE IF ~launched
           THEN /\ pc' = Idle
                /\ commands' = <<apply_schema_command(r.tree, order[r.k], r.at)>>
                /\ result' = [op |-> "apply_schema", raised |-> CannotLaunch]
           ELSE /\ pc' = [at |-> "subprocess.run", k |-> r.k, verb |-> r.at,
                          entry |-> scheme, baseline |-> committed]
                /\ commands' = <<apply_schema_command(r.tree, order[r.k], r.at)>>
                /\ result' = result
        /\ UNCHANGED <<raw, file, blocks>>

\* The external program ends with exit status returncode.  subprocess.run
\* raises CalledProcessError for a non-zero status only with check=True;
\* otherwise it returns, apply_schema does not read the status, and the
\* loops run on, up to the next subprocess.run or to the end.
subprocess_run_returns(returncode, launched) ==
    /\ pc /= Idle
    /\ LET r == apply_schema_loop(scheme, pc.k, IF pc.verb = "ac" THEN "dc" ELSE "upd")
           order == Scheme_order(scheme, 1)
           ran == [commands EXCEPT ![Len(commands)].returncode = returncode]
       IN  IF subprocess_run_check /\ returncode /= 0
           THEN /\ pc' = Idle
                /\ commands' = ran
                /\ result' = [op |-> "apply_schema", raised |-> "CalledProcessError"]
                /\ UNCHANGED <<scheme, committed>>
           ELSE
           /\ scheme' = r.tree
           /\ committed' = [i \in 1..Len(scheme.subgroups) |->
                              [j \in 1..Len(scheme.subgroups[i].settings) |->
                                  IF \E k \in pc.k..(r.k - 1) : order[k] = <<i, j>>
                                  THEN Held(scheme)[i][j] ELSE committed[i][j]]]
           /\ IF r.at = "end"
              THEN /\ pc' = Idle
                   /\ commands' = ran
                   /\ result' = [op |-> "apply_schema", raised |-> "ok"]
              ELSE IF ~launched
              THEN /\ pc' = Idle
                   /\ commands' = Append(ran, apply_schema_command(r.tree, order[r.k], r.at))
                   /\ result' = [op |-> "apply_schema", raised |-> CannotLaunch]
              ELSE /\ pc' = [pc EXCEPT !.k = r.k, !.verb = r.at]
                   /\ commands' = Append(ran, apply_schema_command(r.tree, order[r.k], r.at))
                   /\ result' = result
    /\ UNCHANGED <<raw, file, blocks>>

\* PowerCfg.export_to_json(filename): json.dump of Scheme.to_json().
export_to_json ==
    /\ pc = Idle
    /\ file' = <<Scheme_to_json(scheme)>>
    /\ result' = [op |-> "export_to_json", raised |-> "ok"]
    /\ commands' = <<>>
    /\ UNCHANGED <<raw, scheme, blocks, committed, pc>>

\* PowerCfg.load_from_json(filename): json.load of the file, then Scheme.load_from_json.
PowerCfg_load_from_json ==
    /\ file /= <<>>
    /\ LET r == Scheme_load_from_json(scheme, file[1]) IN
       /\ scheme' = r.obj
       /\ result' = [op |-> "PowerCfg.load_from_json", raised |-> r.raised,
                     json_data |-> file[1]]
    /\ pc = Idle
    /\ commands' = <<>>
    /\ UNCHANGED <<raw, file, blocks, committed, pc>>

SetterArgs == 0..MaxVal

\* The program has one thread: its calls come one after the other, and
\* apply_schema() runs from its call to its end, through its waits in
\* subprocess.run, before the next call.
Next ==
    \/ PowerCfg_init
    \/ \E p \in Positions, v \in SetterArgs : set_ac_value(p[1], p[2], v)
    \/ \E p \in Positions, v \in SetterArgs : set_dc_value(p[1], p[2], v)
    \/ \E p \in Positions : update_old_values(p[1], p[2])
    \/ \E j \in JsonDocs(scheme) : load_from_json(j)
    \/ \E launched \in BOOLEAN : apply_schema(launched)
    \/ \E returncode \in {0, 1}, launched \in BOOLEAN :
           subprocess_run_returns(returncode, launched)

Spec == Init /\ [][Next]_vars

\* Export and restore through the file.
NextRoundTrip ==
    \/ PowerCfg_init
    \/ \E p \in Positions, v \in SetterArgs : set_ac_value(p[1], p[2], v)
    \/ \E p \in Positions, v \in SetterArgs : set_dc_value(p[1], p[2], v)
    \/ export_to_json
    \/ PowerCfg_load_from_json

SpecRoundTrip == Init /\ [][NextRoundTrip]_vars

\* The constructors SubGroup(str_to_parse) and Scheme(str_to_parse) on their
\* own: the blocks _parse handed to the child constructor, up to and
\* including the first one that made it raise.
InitSplit ==
    /\ raw \in SplitTexts
    /\ scheme = [guid |-> NoGuid, subgroups |-> <<>>]
    /\ committed = <<>>
    /\ file = <<>>
    /\ result = [op |-> "none", raised |-> "ok"]
    /\ commands = <<>>
    /\ blocks = <<>>
    /\ pc = Idle

Built(bs, raises(_)) ==
    IF \E k \in 1..Len(bs) : raises(bs[k]) /= "ok"
    THEN SubSeq(bs, 1, CHOOSE k \in 1..Len(bs) :
                          /\ raises(bs[k]) /= "ok"
                          /\ \A m \in 1..(k - 1) : raises(bs[m]) = "ok")
    ELSE bs

Scheme_construct ==
    /\ result.op = "none"
    /\ raw[1].indent = 0
    /\ blocks' = Built(Split(Tail(raw), 2), SubGroup_init_raises)
    /\ result' = [op |-> "Scheme", raised |-> Scheme_init_raises(raw)]
    /\ scheme' = IF Scheme_init_raises(raw) = "ok" THEN Scheme_init(raw) ELSE scheme
    /\ UNCHANGED <<raw, file, commands, committed, pc>>

SubGroup_construct ==
    /\ result.op = "none"
    /\ raw[1].indent = 2
    /\ blocks' = Built(Split(Tail(raw), 4), Setting_init_raises)
    /\ result' = [op |-> "SubGroup", raised |-> SubGroup_init_raises(raw)]
    /\ UNCHANGED <<raw, scheme, file, commands, committed, pc>>

NextSplit == Scheme_construct \/ SubGroup_construct

SpecSplit == InitSplit /\ [][NextSplit]_vars

-----------------------------------------------------------------------------
(* The claims.                                                             *)

SettingsOf(sch) == {p \in Positions : IsSetting(sch, p[1], p[2])}

\* The option domain as the specification words it.
InDomain(s, v) ==
    /\ v /= None
    /\ IF s.options_type = RANGE_OPTIONS
       THEN s.options[1] <= v /\ v <= s.options[2]
       ELSE v \in {s.options[k] : k \in 1..Len(s.options)}

\* The rows of the block the setting at p was built from.
BlockOf(text, p) == Split(Tail(Split(Tail(text), 2)[p[1]]), 4)[p[2]]

IsDocRow(row) == row.indent = 6 /\ ~row.word

IsValueRow(row) == row.indent = 4

\* C1: a setter applies v iff v is in the option domain; otherwise it raises
\* WrongSettingValueException and leaves ac_value, dc_value, old_ac_value and
\* old_dc_value (the whole tree) as they were.
C1_SettersValidate ==
    [][result'.op \in {"set_ac_value", "set_dc_value"} =>
        \A p \in Positions, v \in SetterArgs :
        LET s == SettingAt(scheme, p[1], p[2])
            Outcome(applied) ==
                IF InDomain(s, v)
                THEN /\ result'.raised = "ok"
                     /\ scheme' = [scheme EXCEPT !.subgroups[p[1]].settings[p[2]] = applied]
                ELSE /\ result'.raised = "WrongSettingValueException"
                     /\ scheme' = scheme
        IN  /\ set_ac_value(p[1], p[2], v) => Outcome([s EXCEPT !.ac_value = v])
            /\ set_dc_value(p[1], p[2], v) => Outcome([s EXCEPT !.dc_value = v])]_vars

\* A setter has just rejected a value.
C1_Witness ==
    /\ result.op \in {"set_ac_value", "set_dc_value"}
    /\ result.raised = "WrongSettingValueException"

\* C2: no setting is changed right after construction, and in every state a
\* setting is AC-changed (DC-changed) iff its current value differs from the
\* value it held at construction or at its last update_old_values().
C2_ChangedIffDiffers ==
    /\ result.op = "__init__" =>
           \A p \in SettingsOf(scheme) :
               /\ ~Setting_is_ac_changed(SettingAt(scheme, p[1], p[2]))
               /\ ~Setting_is_dc_changed(SettingAt(scheme, p[1], p[2]))
    /\ result.op \in {"__init__", "set_ac_value", "set_dc_value", "update_old_values",
                      "load_from_json", "apply_schema"} =>
           \A p \in SettingsOf(scheme) :
               LET s == SettingAt(scheme, p[1], p[2]) IN
               /\ Setting_is_ac_changed(s) <=> (s.ac_value /= committed[p[1]][p[2]][1])
               /\ Setting_is_dc_changed(s) <=> (s.dc_value /= committed[p[1]][p[2]][2])

\* A successful setter call has left a setting changed, and a value row was
\* missing in the text.
C2_Witness ==
    /\ result.op = "set_dc_value"
    /\ result.raised = "ok"
    /\ \E p \in SettingsOf(scheme) :
           /\ Setting_is_dc_changed(SettingAt(scheme, p[1], p[2]))
           /\ committed[p[1]][p[2]][2] = None
           /\ ~Setting_is_ac_changed(SettingAt(scheme, p[1], p[2]))

\* The place of a command in the tree order: subgroup, setting, AC before DC.
Rank(sch, c) ==
    LET i == CHOOSE i \in 1..Len(sch.subgroups) : sch.subgroups[i].guid = c.subgroup
        j == CHOOSE j \in 1..Len(sch.subgroups[i].settings) :
                 sch.subgroups[i].settings[j].guid = c.setting
    IN  4 * i + 2 * j + (IF c.verb = "-setdcvalueindex" THEN 1 ELSE 0)

\* A step in which a call of apply_schema() ends, and the tree and the
\* baselines that call found.
ApplyEnds ==
    /\ pc' = Idle
    /\ \/ \E l \in BOOLEAN : apply_schema(l)
       \/ \E rc \in {0, 1}, l \in BOOLEAN : subprocess_run_returns(rc, l)

Entry == IF pc = Idle THEN scheme ELSE pc.entry

Baseline == IF pc = Idle THEN committed ELSE pc.baseline

Verbs == {"-setacvalueindex", "-setdcvalueindex"}

\* The current value and the baseline a command verb is about.
ValueOf(s, verb) == IF verb = "-setacvalueindex" THEN s.ac_value ELSE s.dc_value

BaselineOf(base, p, verb) ==
    IF verb = "-setacvalueindex" THEN base[p[1]][p[2]][1] ELSE base[p[1]][p[2]][2]

FlagRank(p, verb) == 4 * p[1] + 2 * p[2] + (IF verb = "-setdcvalueindex" THEN 1 ELSE 0)

Loads == result'.op = "load_from_json" /\ pc' = pc

\* The record of the setting at p in a JSON document, if the document holds
\* the keys of its subgroup and of the setting.
IsPresent(sch, p, json_data) ==
    /\ HasKey(json_data.subgroups, sch.subgroups[p[1]].guid)
    /\ HasKey(json_data.subgroups[sch.subgroups[p[1]].guid].settings,
              SettingAt(sch, p[1], p[2]).guid)

RecordOf(sch, p, json_data) ==
    json_data.subgroups[sch.subgroups[p[1]].guid].settings[SettingAt(sch, p[1], p[2]).guid]

\* C4: a load with the tree's scheme GUID, whose records all hold values in
\* the domain of their setting, raises nothing, leaves every setting without
\* a record untouched and gives every setting with a record its values,
\* wherever the missing keys are.
C4_MissingKeySkipped ==
    [][(/\ Loads
        /\ result'.json_data.guid = scheme.guid
        /\ \A p \in SettingsOf(scheme) :
               IsPresent(scheme, p, result'.json_data) =>
                   /\ InDomain(SettingAt(scheme, p[1], p[2]),
                               RecordOf(scheme, p, result'.json_data).ac_value)
                   /\ InDomain(SettingAt(scheme, p[1], p[2]),
                               RecordOf(scheme, p, result'.json_data).dc_value))
       => /\ result'.raised = "ok"
          /\ \A p \in SettingsOf(scheme) :
                 IF IsPresent(scheme, p, result'.json_data)
                 THEN /\ SettingAt(scheme', p[1], p[2]).ac_value =
                             RecordOf(scheme, p, result'.json_data).ac_value
                      /\ SettingAt(scheme', p[1], p[2]).dc_value =
                             RecordOf(scheme, p, result'.json_data).dc_value
                 ELSE SettingAt(scheme', p[1], p[2]) = SettingAt(scheme, p[1], p[2])]_vars

\* The current values of every setting.
Values(sch) == Held(sch)

\* The file holds the export of a tree freshly parsed from the text, and the
\* live tree is freshly parsed from the same text.
FreshRoundTrip ==
    /\ file = <<Scheme_to_json(Scheme_init(raw))>>
    /\ scheme = Scheme_init(raw)

\* C5 as claimed, for the texts that give every setting an AC and a DC value:
\* loading the export of a freshly parsed tree into a second freshly parsed
\* tree succeeds and leaves every ac_value and dc_value as in the first tree.
C5_RoundTripSucceeds ==
    [][(/\ result'.op = "PowerCfg.load_from_json"
        /\ FreshRoundTrip
        /\ \A p \in SettingsOf(scheme) : /\ SettingAt(scheme, p[1], p[2]).ac_value /= None
                                         /\ SettingAt(scheme, p[1], p[2]).dc_value /= None)
       => /\ result'.raised = "ok"
          /\ Values(scheme') = Values(Scheme_init(raw))]_vars

\* C5 as amended: that load leaves every ac_value and dc_value as in the
\* first tree, and it succeeds iff every value taken from the text is in the
\* option domain of its setting; otherwise it raises.
C5_RoundTripKeepsValues ==
    [][(result'.op = "PowerCfg.load_from_json" /\ FreshRoundTrip)
       => /\ Values(scheme') = Values(Scheme_init(raw))
          /\ result'.raised = "ok" <=>
                 \A p \in SettingsOf(scheme) :
                     /\ InDomain(SettingAt(scheme, p[1], p[2]), SettingAt(scheme, p[1], p[2]).ac_value)
                     /\ InDomain(SettingAt(scheme, p[1], p[2]), SettingAt(scheme, p[1], p[2]).dc_value)
          /\ result'.raised \in {"ok", "WrongSettingValueException", "TypeError"}]_vars

\* The export of a fresh tree was loaded into a fresh tree of two settings
\* with different values, and the load succeeded.
C5_Witness ==
    /\ result.op = "PowerCfg.load_from_json"
    /\ result.raised = "ok"
    /\ result.json_data = Scheme_to_json(Scheme_init(raw))
    /\ scheme = Scheme_init(raw)
    /\ Len(scheme.subgroups) = 1
    /\ Len(scheme.subgroups[1].settings) = 2

\* C6: Scheme.load_from_json() with a record whose 'guid' differs from the
\* tree's raises an error and leaves every value and baseline (the whole
\* tree) unchanged, whatever else the record holds.
C6_WrongGuidRejected ==
    [][(Loads /\ result'.json_data.guid /= scheme.guid)
       => /\ result'.raised = "Exception"
          /\ scheme' = scheme]_vars

\* A complete record under another GUID, with values the settings would
\* take, was rejected while values were pending.
C6_Witness ==
    /\ result.op = "load_from_json"
    /\ result.raised = "Exception"
    /\ IsComplete(scheme, result.json_data.subgroups)
    /\ \E p \in SettingsOf(scheme) :
           /\ InDomain(SettingAt(scheme, p[1], p[2]), RecordOf(scheme, p, result.json_data).ac_value)
           /\ RecordOf(scheme, p, result.json_data).ac_value /= SettingAt(scheme, p[1], p[2]).ac_value
           /\ Setting_is_dc_changed(SettingAt(scheme, p[1], p[2]))

\* The k-th smallest element of a set of numbers.
Kth(S, k) == CHOOSE x \in S : Cardinality({y \in S : y < x}) = k - 1

\* C7: the children of a SubGroup (level 4) or Scheme (level 2) correspond
\* one-to-one and in order to the delimiter rows; the k-th child is built from
\* the rows from the k-th delimiter row up to but excluding the next one, or
\* up to and including the last row for the final delimiter.
C7_OneChildPerDelimiter ==
    (result.op \in {"Scheme", "SubGroup"} /\ result.raised = "ok") =>
        LET rows == Tail(raw)
            level == IF result.op = "Scheme" THEN 2 ELSE 4
            D == {i \in 1..Len(rows) : rows[i].indent = level /\ rows[i].guid /= NoGuid}
            Last(k) == IF k = Cardinality(D) THEN Len(rows) ELSE Kth(D, k + 1) - 1
        IN  /\ Len(blocks) = Cardinality(D)
            /\ \A k \in 1..Len(blocks) : blocks[k] = SubSeq(rows, Kth(D, k), Last(k))

\* The documentation values of a block as written in the text.
RECURSIVE DocValues(_)
DocValues(rows) ==
    IF rows = <<>> THEN <<>>
    ELSE (IF IsDocRow(Head(rows)) THEN <<Head(rows).value>> ELSE <<>>) \o DocValues(Tail(rows))

\* A written value that is numeric once hexadecimal is normalised, and its integer.
IsNumeric(w) == startswith_0x(w) \/ isdigit(w)

NumberOf(w) == IF startswith_0x(w) THEN IntBase16(w) ELSE IntBase10(w)

RECURSIVE NumbersOf(_)
NumbersOf(ws) ==
    IF ws = <<>> THEN <<>>
    ELSE (IF IsNumeric(Head(ws)) THEN <<NumberOf(Head(ws))>> ELSE <<>>) \o NumbersOf(Tail(ws))

\* C8: in every state, a setting whose first two documentation values are
\* numeric has options_type RANGE and exactly those two integers as options,
\* and any other setting has options_type LIST and the integers of all its
\* numeric documentation values, in order, duplicates kept.
C8_OptionDomainInferred ==
    result.op \in {"__init__", "set_ac_value", "set_dc_value", "update_old_values",
                   "load_from_json", "apply_schema"} =>
        \A p \in SettingsOf(scheme) :
            LET s == SettingAt(scheme, p[1], p[2])
                ws == DocValues(Tail(BlockOf(raw, p)))
            IN  IF IsNumeric(ws[1]) /\ IsNumeric(ws[2])
                THEN s.options_type = RANGE_OPTIONS /\ s.options = <<NumberOf(ws[1]), NumberOf(ws[2])>>
                ELSE s.options_type = LIST_OPTIONS /\ s.options = NumbersOf(ws)

\* After a successful load, a list domain holding a duplicate, inferred from
\* a text whose first documentation value is numeric and whose second is not.
C8_Witness ==
    /\ result.op = "load_from_json"
    /\ result.raised = "ok"
    /\ \E p \in SettingsOf(scheme) :
           /\ SettingAt(scheme, p[1], p[2]).options = <<1, 1>>
           /\ SettingAt(scheme, p[1], p[2]).ac_value /= SettingAt(scheme, p[1], p[2]).old_ac_value

\* The values of the 4-space value rows of a block as written in the text.
RECURSIVE RowInts(_)
RowInts(rows) ==
    IF rows = <<>> THEN <<>>
    ELSE (IF IsValueRow(Head(rows)) THEN <<IntBase16(Head(rows).value)>> ELSE <<>>)
         \o RowInts(Tail(rows))

\* C9: after construction ac_value and old_ac_value are the value of the
\* first value row, dc_value and old_dc_value the value of the second; later
\* value rows are ignored.
C9_ThirdRowIgnored ==
    result.op = "__init__" =>
        \A p \in SettingsOf(scheme) :
            LET s == SettingAt(scheme, p[1], p[2])
                vs == RowInts(Tail(BlockOf(raw, p)))
            IN  /\ Len(vs) >= 1 => s.ac_value = vs[1] /\ s.old_ac_value = vs[1]
                /\ Len(vs) >= 2 => s.dc_value = vs[2] /\ s.old_dc_value = vs[2]

\* The changed flags of a tree.
ChangedFlags(sch) ==
    {<<p, "ac">> : p \in {q \in SettingsOf(sch) : Setting_is_ac_changed(SettingAt(sch, q[1], q[2]))}}
    \cup
    {<<p, "dc">> : p \in {q \in SettingsOf(sch) : Setting_is_dc_changed(SettingAt(sch, q[1], q[2]))}}

\* The settings a command is for.
SettingsFor(sch, c) ==
    {p \in SettingsOf(sch) : /\ sch.subgroups[p[1]].guid = c.subgroup
                             /\ SettingAt(sch, p[1], p[2]).guid = c.setting}

====
